---- MODULE Spec2Model ----
(***************************************************************************)
(* StudyPDF (src/app.py): the document-to-context reduction pipeline.      *)
(*                                                                         *)
(* Texts that the code scans character by character (the document, the    *)
(* query, chunks, paragraphs) are sequences of one-character strings.      *)
(* Texts that the code only formats and measures (prompts, summaries,      *)
(* failure messages, the digest) are strings; Str converts the first form  *)
(* to the second.                                                          *)
(***************************************************************************)
EXTENDS Integers, Sequences, FiniteSets, TLC

(***************************************************************************)
(* Bounds of the model.                                                    *)
(***************************************************************************)
\* longest text, counted in pieces of Pieces, given to the pure functions
MaxPieces == 6
\* largest max_tokens argument given to chunk_text / find_relevant_context
MaxBudget == 4
\* most repetitions of one unit in a document given to process_large_document
MaxRep == 3
\* longest list of chunks given to progressive_summarize called on its own
MaxChunks == 6
\* most paragraphs of a text built from whole paragraphs
MaxParas == 3
MaxWaiting == 3
\* The literal 3500 of process_large_document (src/app.py:146, 152, 163),
\* scaled down so that documents on both sides of it can be enumerated.
\* Every comparison of the code against 3500 is made against TOKEN_BUDGET.
TOKEN_BUDGET == 4

(***************************************************************************)
(* Program constants.                                                      *)
(***************************************************************************)
\* estimate_tokens: len(text) // 4; chunk_text: max_chars = max_tokens * 4
CHARS_PER_TOKEN == 4
\* process_large_document: if len(chunks) > 5: chunks = chunks[:5]
MAX_SECTIONS == 5
\* find_relevant_context: [w for w in query_words if len(w) > 3]
MIN_TERM_LEN == 3

(***************************************************************************)
(* Characters.                                                             *)
(***************************************************************************)
\* str.split() / str.strip() without argument: whitespace
IsSpace(c) == c \in {" ", "\n", "\t"}

\* the regular expression class \w
IsWordChar(c) ==
    c \in {"a", "b", "c", "d", "e", "f", "g", "h", "i", "l", "m", "o", "r",
           "s", "t", "u", "v", "w", "y", "z", "A", "B", "S", "O", "5", "_"}

\* str.lower() on one character
LowerChar(c) ==
    CASE c = "A" -> "a"
      [] c = "B" -> "b"
      [] c = "S" -> "s"
      [] c = "O" -> "o"
      [] OTHER -> c

\* str.lower()
lower(s) == [k \in 1..Len(s) |-> LowerChar(s[k])]

RECURSIVE Str(_)
\* a sequence of characters as a string
Str(s) == IF s = <<>> THEN "" ELSE Head(s) \o Str(Tail(s))

\* s[:n]
Take(s, n) == SubSeq(s, 1, IF n < Len(s) THEN n ELSE Len(s))

\* s[n:]
Drop(s, n) == SubSeq(s, n + 1, Len(s))

\* s.startswith(p)
StartsWith(s, p) == Len(p) <= Len(s) /\ SubSeq(s, 1, Len(p)) = p

\* p in s
Contains(s, p) == \E k \in 0..(Len(s) - Len(p)) : SubSeq(s, k + 1, k + Len(p)) = p

RECURSIVE lstrip(_)
lstrip(s) == IF s # <<>> /\ IsSpace(Head(s)) THEN lstrip(Tail(s)) ELSE s

RECURSIVE rstrip(_)
rstrip(s) ==
    IF s # <<>> /\ IsSpace(s[Len(s)]) THEN rstrip(SubSeq(s, 1, Len(s) - 1)) ELSE s

\* str.strip()
strip(s) == rstrip(lstrip(s))

RECURSIVE SplitScan(_, _, _)
\* str.split(): the maximal runs of non-whitespace characters, in order
SplitScan(s, cur, acc) ==
    IF s = <<>> THEN (IF cur = <<>> THEN acc ELSE Append(acc, cur))
    ELSE IF IsSpace(Head(s))
         THEN SplitScan(Tail(s), <<>>, IF cur = <<>> THEN acc ELSE Append(acc, cur))
         ELSE SplitScan(Tail(s), Append(cur, Head(s)), acc)

split(s) == SplitScan(s, <<>>, <<>>)

RECURSIVE SplitSepScan(_, _, _, _)
\* str.split(sep): cut at each occurrence of sep, left to right, keeping
\* empty pieces
SplitSepScan(s, sep, cur, acc) ==
    IF s = <<>> THEN Append(acc, cur)
    ELSE IF StartsWith(s, sep)
         THEN SplitSepScan(Drop(s, Len(sep)), sep, <<>>, Append(acc, cur))
         ELSE SplitSepScan(Tail(s), sep, Append(cur, Head(s)), acc)

split_sep(s, sep) == SplitSepScan(s, sep, <<>>, <<>>)

RECURSIVE join(_, _)
\* sep.join(parts) on sequences of characters
join(sep, parts) ==
    IF parts = <<>> THEN <<>>
    ELSE IF Len(parts) = 1 THEN parts[1]
    ELSE parts[1] \o sep \o join(sep, Tail(parts))

RECURSIVE JoinStr(_, _)
\* sep.join(parts) on strings
JoinStr(sep, parts) ==
    IF parts = <<>> THEN ""
    ELSE IF Len(parts) = 1 THEN parts[1]
    ELSE parts[1] \o sep \o JoinStr(sep, Tail(parts))

RECURSIVE count_overlapping(_, _)
\* a count that resumes the search one character after the start of each
\* occurrence
count_overlapping(s, sub) ==
    IF Len(s) < Len(sub) THEN 0
    ELSE IF StartsWith(s, sub) THEN 1 + count_overlapping(Tail(s), sub)
    ELSE count_overlapping(Tail(s), sub)

RECURSIVE count(_, _)
\* str.count(sub) for non-empty sub: occurrences found left to right, the
\* search resuming after the end of each occurrence
count(s, sub) ==
    IF Len(s) < Len(sub) THEN 0
    ELSE IF StartsWith(s, sub) THEN 1 + count(Drop(s, Len(sub)), sub)
    ELSE count(Tail(s), sub)

RECURSIVE FindallScan(_, _, _)
\* re.findall(r'\b\w+\b', s): the maximal runs of \w characters, in order
FindallScan(s, cur, acc) ==
    IF s = <<>> THEN (IF cur = <<>> THEN acc ELSE Append(acc, cur))
    ELSE IF IsWordChar(Head(s))
         THEN FindallScan(Tail(s), Append(cur, Head(s)), acc)
         ELSE FindallScan(Tail(s), <<>>, IF cur = <<>> THEN acc ELSE Append(acc, cur))

findall_words(s) == FindallScan(s, <<>>, <<>>)

RECURSIVE SumSeq(_)
SumSeq(ns) == IF ns = <<>> THEN 0 ELSE Head(ns) + SumSeq(Tail(ns))

(***************************************************************************)
(* estimate_tokens                                                         *)
(***************************************************************************)
\* on a sequence of characters
estimate_tokens(text) == Len(text) \div CHARS_PER_TOKEN

(***************************************************************************)
(* chunk_text                                                              *)
(***************************************************************************)
\* a chunk-closing test that looks only at what the chunk already holds
closes_chunk_before_adding(current_length, word_length, max_chars, current_chunk) ==
    current_length > max_chars /\ current_chunk # <<>>

\* if current_length + word_length > max_chars and current_chunk
closes_chunk(current_length, word_length, max_chars, current_chunk) ==
    current_length + word_length > max_chars /\ current_chunk # <<>>

\* a flush that forgets the chunk still being filled
flush_nothing(chunks, current_chunk) == chunks

\* if current_chunk: chunks.append(' '.join(current_chunk)); return chunks
flush(chunks, current_chunk) ==
    IF current_chunk # <<>> THEN Append(chunks, join(<<" ">>, current_chunk)) ELSE chunks

RECURSIVE ChunkLoop(_, _, _, _, _)
\* the loop "for word in words" and the flush after it; words are the words
\* still to visit
ChunkLoop(words, max_chars, chunks, current_chunk, current_length) ==
    IF words = <<>>
    THEN flush(chunks, current_chunk)
    ELSE LET word == Head(words)
             word_length == Len(word) + 1
         IN  IF closes_chunk(current_length, word_length, max_chars, current_chunk)
             THEN ChunkLoop(Tail(words), max_chars,
                            Append(chunks, join(<<" ">>, current_chunk)),
                            <<word>>, word_length)
             ELSE ChunkLoop(Tail(words), max_chars, chunks,
                            Append(current_chunk, word),
                            current_length + word_length)

chunk_text(text, max_tokens) ==
    ChunkLoop(split(text), max_tokens * CHARS_PER_TOKEN, <<>>, <<>>, 0)

(***************************************************************************)
(* find_relevant_context                                                   *)
(***************************************************************************)
RECURSIVE LongWords(_)
\* [w for w in query_words if len(w) > 3]
LongWords(ws) ==
    IF ws = <<>> THEN <<>>
    ELSE IF Len(Head(ws)) > MIN_TERM_LEN THEN <<Head(ws)>> \o LongWords(Tail(ws))
    ELSE LongWords(Tail(ws))

query_words(query) == LongWords(findall_words(lower(query)))

RECURSIVE StripNonEmpty(_)
\* [p.strip() for p in parts if p.strip()]
StripNonEmpty(parts) ==
    IF parts = <<>> THEN <<>>
    ELSE IF strip(Head(parts)) # <<>>
         THEN <<strip(Head(parts))>> \o StripNonEmpty(Tail(parts))
         ELSE StripNonEmpty(Tail(parts))

paragraphs(text) == StripNonEmpty(split_sep(text, <<"\n", "\n">>))

\* sum(para_lower.count(word) for word in query_words)
score(para, qwords) ==
    SumSeq([k \in 1..Len(qwords) |-> count(lower(para), qwords[k])])

RECURSIVE Scored(_, _)
\* the (score, para) pairs with score > 0, in document order
Scored(paras, qwords) ==
    IF paras = <<>> THEN <<>>
    ELSE LET sc == score(Head(paras), qwords)
         IN  IF sc > 0
             THEN <<[score |-> sc, para |-> Head(paras)]>> \o Scored(Tail(paras), qwords)
             ELSE Scored(Tail(paras), qwords)

RECURSIVE InsertDesc(_, _)
\* x placed after every element whose score is >= its own
InsertDesc(sorted, x) ==
    IF sorted = <<>> THEN <<x>>
    ELSE IF Head(sorted).score >= x.score
         THEN <<Head(sorted)>> \o InsertDesc(Tail(sorted), x)
         ELSE <<x>> \o sorted

RECURSIVE SortDesc(_, _)
\* list.sort(key=lambda x: x[0], reverse=True): stable, by score descending
SortDesc(todo, sorted) ==
    IF todo = <<>> THEN sorted
    ELSE SortDesc(Tail(todo), InsertDesc(sorted, Head(todo)))

scored_paragraphs(text, query) ==
    SortDesc(Scored(paragraphs(text), query_words(query)), <<>>)

\* a test that forgets the size of the paragraph it is about to add
FitsBeforeAdding(context, para, max_chars) == Len(context) < max_chars

\* a size test that lets the sum reach max_chars
FitsInclusive(context, para, max_chars) == Len(context) + Len(para) + 2 <= max_chars

\* if len(context) + len(para) + 2 < max_chars
Fits(context, para, max_chars) == Len(context) + Len(para) + 2 < max_chars

RECURSIVE AssembleSkipping(_, _, _)
\* an assembly that passes over a paragraph that does not fit and goes on
AssembleSkipping(ranked, context, max_chars) ==
    IF ranked = <<>> THEN context
    ELSE IF Len(context) + Len(Head(ranked).para) + 2 < max_chars
         THEN AssembleSkipping(Tail(ranked),
                               context \o Head(ranked).para \o <<"\n", "\n">>, max_chars)
         ELSE AssembleSkipping(Tail(ranked), context, max_chars)

RECURSIVE Assemble(_, _, _)
\* the loop "for score, para in scored_paragraphs", with its break
Assemble(ranked, context, max_chars) ==
    IF ranked = <<>> THEN context
    ELSE IF Fits(context, Head(ranked).para, max_chars)
         THEN Assemble(Tail(ranked), context \o Head(ranked).para \o <<"\n", "\n">>,
                       max_chars)
         ELSE context

\* a fallback that takes the last chunk
FallbackLast(text, max_tokens) ==
    LET chunks == chunk_text(text, max_tokens)
    IN  IF chunks # <<>> THEN chunks[Len(chunks)]
        ELSE Take(text, max_tokens * CHARS_PER_TOKEN)

\* chunks = chunk_text(text, max_tokens)
\* context = chunks[0] if chunks else text[:max_chars]
Fallback(text, max_tokens) ==
    LET chunks == chunk_text(text, max_tokens)
    IN  IF chunks # <<>> THEN chunks[1] ELSE Take(text, max_tokens * CHARS_PER_TOKEN)

\* a fallback taken only when no paragraph has a positive score
find_relevant_context_unless_scored(text, query, max_tokens) ==
    LET max_chars == max_tokens * CHARS_PER_TOKEN
        ranked    == scored_paragraphs(text, query)
        context   == IF ranked = <<>> THEN Fallback(text, max_tokens)
                     ELSE Assemble(ranked, <<>>, max_chars)
    IN  strip(context)

find_relevant_context(text, query, max_tokens) ==
    LET max_chars == max_tokens * CHARS_PER_TOKEN
        assembled == Assemble(scored_paragraphs(text, query), <<>>, max_chars)
        context   == IF strip(assembled) = <<>> THEN Fallback(text, max_tokens)
                     ELSE assembled
    IN  strip(context)

(***************************************************************************)
(* progressive_summarize, build_academic_prompt, call_groq                 *)
(***************************************************************************)
\* the prompt of progressive_summarize for one chunk
section_prompt(chunk) ==
    "Summarize this section concisely. Focus on key points.\n\n" \o Str(chunk)
        \o "\n\nSummary:"

\* mode_instructions.get(mode, "")
instruction(m) ==
    CASE m = "Homework / Problem" -> "Explain step-by-step. Give clear answers."
      [] m = "Research Paper" -> "Summarize methods, results, limitations precisely."
      [] m = "Lecture / Notes" -> "Extract key points. Explain simply with examples."
      [] m = "Flashcards" -> "Generate short Q&A flashcards."
      [] OTHER -> ""

context_note(summary_flag) ==
    IF summary_flag THEN "\n[Note: Excerpt from larger document]" ELSE ""

\* a template that puts the note in front of the context
build_academic_prompt_note_first(m, ctx, q, summary_flag) ==
    "You are StudyPDF. " \o instruction(m) \o "\n\nContext: "
        \o context_note(summary_flag) \o ctx \o "\n\nQuestion: " \o q \o "\n\nAnswer:"

\* ctx and q are strings
build_academic_prompt(m, ctx, q, summary_flag) ==
    "You are StudyPDF. " \o instruction(m) \o "\n\nContext: " \o ctx
        \o context_note(summary_flag) \o "\n\nQuestion: " \o q \o "\n\nAnswer:"

\* What client.chat.completions.create does with one request: it returns a
\* completion with the content text, or raises an exception whose str() is
\* text.
Outcomes ==
    {[ok |-> TRUE, text |-> "ok"],
     [ok |-> TRUE, text |-> "A much longer answer."],
     [ok |-> FALSE, text |-> "rate_limit_exceeded"]}

\* the requests call_groq sends for one prompt whose request ends as o
Requests(prompt, o) == <<[prompt |-> prompt, ok |-> o.ok, text |-> o.text]>>

\* a wrapper that decorates the message of the exception it re-raises
call_groq_decorating(o) ==
    IF o.ok THEN [raised |-> FALSE, value |-> o.text]
    ELSE [raised |-> TRUE, value |-> "Groq error: " \o o.text]

\* call_groq: the content, or RuntimeError(str(e))
call_groq(o) ==
    IF o.ok THEN [raised |-> FALSE, value |-> o.text]
    ELSE [raised |-> TRUE, value |-> o.text]

\* section labels numbered from 0, as enumerate counts
section_entry_from_zero(k, res) ==
    IF res.raised
    THEN "**Section " \o ToString(k - 1) \o ":** Error - " \o res.value
    ELSE "**Section " \o ToString(k - 1) \o ":**\n" \o res.value

\* the entry progressive_summarize appends for chunk number k (from 1):
\* f"**Section {i+1}:**\n{summary}" or f"**Section {i+1}:** Error - {str(e)}"
section_entry(k, res) ==
    IF res.raised
    THEN "**Section " \o ToString(k) \o ":** Error - " \o res.value
    ELSE "**Section " \o ToString(k) \o ":**\n" \o res.value

(***************************************************************************)
(* process_large_document                                                  *)
(***************************************************************************)
Keywords ==
    << <<"s","u","m","m","a","r","i","z","e">>,
       <<"s","u","m","m","a","r","y">>,
       <<"o","v","e","r","v","i","e","w">>,
       <<"f","l","a","s","h","c","a","r","d">> >>

\* any(keyword in query.lower() for keyword in [...])
is_summary_query(q) == \E k \in 1..Len(Keywords) : Contains(lower(q), Keywords[k])

\* a budget test that sends a document of exactly the budget down the
\* reduction paths
fits_budget_strictly(text) == estimate_tokens(text) < TOKEN_BUDGET

\* if estimated_tokens <= 3500
fits_budget(text) == estimate_tokens(text) <= TOKEN_BUDGET

\* no cap on the number of sections
cap_chunks_none(chunks) == chunks

\* if len(chunks) > 5: chunks = chunks[:5]
cap_chunks(chunks) ==
    IF Len(chunks) > MAX_SECTIONS THEN SubSeq(chunks, 1, MAX_SECTIONS) ELSE chunks

\* a failed call sends control back to the start of the function: a retry
after_call_retrying(res) == IF res.raised THEN "start" ELSE "returned"

\* where control goes when the last call_groq of process_large_document ends:
\* "return call_groq(prompt), flag", or the RuntimeError leaves the function
after_call(res) == IF res.raised THEN "raised" ELSE "returned"

(***************************************************************************)
(* Inputs.                                                                 *)
(***************************************************************************)
RECURSIVE Rep(_, _)
\* s * n
Rep(s, n) == IF n = 0 THEN <<>> ELSE s \o Rep(s, n - 1)

RECURSIVE Concat(_)
Concat(parts) == IF parts = <<>> THEN <<>> ELSE Head(parts) \o Concat(Tail(parts))

\* building blocks of the texts given to chunk_text and find_relevant_context
Pieces == { <<"a">>, <<" ">>, <<"\n">>, <<"a","b","a","B">> }

RECURSIVE PieceSeqs(_)
PieceSeqs(n) ==
    IF n = 0 THEN { <<>> }
    ELSE LET shorter == PieceSeqs(n - 1)
         IN  shorter \cup { Append(ps, p) : ps \in {q \in shorter : Len(q) = n - 1},
                                            p \in Pieces }

\* paragraphs of the texts built from whole paragraphs
ParaVocab ==
    { <<"a","b","a","B">>,
      <<"a","b","a","B","a","b","a","B">>,
      <<"a","b","a","B","a","a","a","a">>,
      <<"a"," ","a">> }

RECURSIVE ParaSeqs(_)
ParaSeqs(n) ==
    IF n = 0 THEN { <<>> }
    ELSE LET shorter == ParaSeqs(n - 1)
         IN  shorter \cup { Append(ps, p) : ps \in {q \in shorter : Len(q) = n - 1},
                                            p \in ParaVocab }

ParagraphTexts == { join(<<"\n", "\n">>, ps) : ps \in ParaSeqs(MaxParas) }

Texts == { Concat(ps) : ps \in PieceSeqs(MaxPieces) } \cup ParagraphTexts

PureQueries ==
    { <<>>,
      <<"a","b","a","b">>,
      <<"a","a","a","a">>,
      <<"a","b","?"," ","A","B","A","B","a"," ","a","b","a","b">> }

\* building blocks of the documents given to process_large_document
Units ==
    { <<"a","b","a","b","a">>,
      <<"a","b","a","b","a","b","a","b"," ">>,
      <<"b","b","b","b","b","b","b","b","\n","\n">>,
      <<"a","b","a","B","\n","\n">>,
      <<" ","\n","\n","\t"," ">> }

Documents ==
    { Rep(u, k) \o Rep(v, j) : u \in Units, v \in Units, k \in 0..MaxRep, j \in 0..MaxRep }

Queries ==
    { <<>>,
      <<"S","u","m","m","a","r","i","z","e"," ","i","t">>,
      <<"a","n"," ","O","v","e","r","v","i","e","w">>,
      <<"w","h","y"," ","a","b","a","b","?">>,
      <<"w","h","o">> }

Modes == { "Research Paper", "Essay" }

\* chunk number k of the list given to progressive_summarize called on its own
chunk_of(k) == <<"a", "b">> \o Rep(<<" ", "a">>, k)

(***************************************************************************)
(* State.                                                                  *)
(***************************************************************************)
VARIABLES
    entry,        \* the function that was called
    full_text,    \* its text argument (text / full_text)
    query,        \* its query argument
    mode,         \* its mode argument
    max_tokens,   \* its max_tokens argument
    pc,           \* "start", "summarize" (inside progressive_summarize),
                  \* "returned", "raised"
    path,         \* branch of process_large_document that was taken
    text_chunks,  \* progressive_summarize: its argument
    summaries,    \* progressive_summarize: summaries
    context,      \* context handed to build_academic_prompt
    is_summary,   \* is_summary handed to build_academic_prompt
    calls,        \* requests sent to the completion service, in the order sent
    ret,          \* value returned
    err,          \* <<message>> of the exception that escaped, or <<>>
    quick_action, \* st.session_state.quick_action
    uploaded_file,\* <<>> without a file, else <<text extracted from the file>>
    text_input,   \* content of the question field
    run,          \* what the last run of the script did
    waiting       \* quick actions chosen since the last run that had a
                  \* document with text, oldest first

vars == <<entry, full_text, query, mode, max_tokens, pc, path, text_chunks,
          summaries, context, is_summary, calls, ret, err,
          quick_action, uploaded_file, text_input, run, waiting>>

\* the state of the browser session
session == <<quick_action, uploaded_file, text_input, run, waiting>>

\* the value of st.session_state.quick_action when no action is pending
None == "None"

\* a run that did nothing
NoRun ==
    [pressed |-> "none", has_text |-> FALSE, pending |-> None, user_query |-> "",
     outcome |-> "none", waiting |-> <<>>]

NoRet == [kind |-> "none"]

Fresh ==
    /\ pc = "start"
    /\ path = "none"
    /\ summaries = <<>>
    /\ context = ""
    /\ is_summary = FALSE
    /\ calls = <<>>
    /\ ret = NoRet
    /\ err = <<>>
    /\ quick_action = None
    /\ uploaded_file = <<>>
    /\ text_input = <<>>
    /\ run = NoRun
    /\ waiting = <<>>

\* a call of process_large_document(full_text, query, mode)
InitProcess ==
    /\ entry = "process_large_document"
    /\ full_text \in Documents
    /\ query \in Queries
    /\ mode \in Modes
    /\ max_tokens = TOKEN_BUDGET
    /\ text_chunks = <<>>
    /\ Fresh

\* a call of progressive_summarize(text_chunks, mode)
InitSummarize ==
    /\ entry = "progressive_summarize"
    /\ full_text = <<>>
    /\ query = <<>>
    /\ mode \in Modes
    /\ max_tokens = TOKEN_BUDGET
    /\ \E n \in 0..MaxChunks : text_chunks = [k \in 1..n |-> chunk_of(k)]
    /\ Fresh

Init == InitProcess \/ InitSummarize

(***************************************************************************)
(* Steps of process_large_document and progressive_summarize.  A step runs *)
(* the code up to and including the return of its next completion request. *)
(***************************************************************************)
\* build_academic_prompt, call_groq and the return statement that ends each
\* branch of process_large_document
FinalCall(ctx, summary_flag, reduced, o) ==
    LET prompt == build_academic_prompt(mode, ctx, Str(query), summary_flag)
        res    == call_groq(o)
    IN  /\ context' = ctx
        /\ is_summary' = summary_flag
        /\ calls' = calls \o Requests(prompt, o)
        /\ pc' = after_call(res)
        /\ ret' = IF res.raised THEN ret
                  ELSE [kind |-> "pair", answer |-> res.value, was_reduced |-> reduced]
        /\ err' = IF res.raised THEN <<res.value>> ELSE err

\* if estimated_tokens <= 3500: the direct path
Direct(o) ==
    /\ entry = "process_large_document" /\ pc = "start"
    /\ fits_budget(full_text)
    /\ path' = "direct"
    /\ FinalCall(Str(full_text), FALSE, FALSE, o)
    /\ UNCHANGED <<session, entry, full_text, query, mode, max_tokens, text_chunks, summaries>>

\* else: find_relevant_context, the question path
Question(o) ==
    /\ entry = "process_large_document" /\ pc = "start"
    /\ ~fits_budget(full_text)
    /\ ~is_summary_query(query)
    /\ path' = "question"
    /\ FinalCall(Str(find_relevant_context(full_text, query, TOKEN_BUDGET)), TRUE, TRUE, o)
    /\ UNCHANGED <<session, entry, full_text, query, mode, max_tokens, text_chunks, summaries>>

\* the summarization path up to the call of progressive_summarize
SummarizeBegin ==
    /\ entry = "process_large_document" /\ pc = "start"
    /\ ~fits_budget(full_text)
    /\ is_summary_query(query)
    /\ path' = "summarization"
    /\ text_chunks' = cap_chunks(chunk_text(full_text, TOKEN_BUDGET))
    /\ pc' = "summarize"
    /\ UNCHANGED <<session, entry, full_text, query, mode, max_tokens, summaries, context,
                   is_summary, calls, ret, err>>

\* progressive_summarize called on its own: entering its loop
SummarizeEnter ==
    /\ entry = "progressive_summarize" /\ pc = "start"
    /\ pc' = "summarize"
    /\ UNCHANGED <<session, entry, full_text, query, mode, max_tokens, path, text_chunks,
                   summaries, context, is_summary, calls, ret, err>>

\* one iteration of "for i, chunk in enumerate(text_chunks)"
SummarizeSection(o) ==
    /\ pc = "summarize"
    /\ Len(summaries) < Len(text_chunks)
    /\ LET k == Len(summaries) + 1
       IN  /\ calls' = calls \o Requests(section_prompt(text_chunks[k]), o)
           /\ summaries' = Append(summaries, section_entry(k, call_groq(o)))
    /\ UNCHANGED <<session, entry, full_text, query, mode, max_tokens, pc, path, text_chunks,
                   context, is_summary, ret, err>>

\* return "\n\n".join(summaries), to the caller of progressive_summarize
SummarizeReturn ==
    /\ entry = "progressive_summarize" /\ pc = "summarize"
    /\ Len(summaries) = Len(text_chunks)
    /\ ret' = [kind |-> "digest", digest |-> JoinStr("\n\n", summaries)]
    /\ pc' = "returned"
    /\ UNCHANGED <<session, entry, full_text, query, mode, max_tokens, path, text_chunks,
                   summaries, context, is_summary, calls, err>>

\* return "\n\n".join(summaries), to process_large_document, which builds the
\* final prompt from it
SummarizeFinal(o) ==
    /\ entry = "process_large_document" /\ pc = "summarize"
    /\ Len(summaries) = Len(text_chunks)
    /\ FinalCall(JoinStr("\n\n", summaries), TRUE, TRUE, o)
    /\ UNCHANGED <<session, entry, full_text, query, mode, max_tokens, path, text_chunks,
                   summaries>>

Next ==
    \/ \E o \in Outcomes : Direct(o)
    \/ \E o \in Outcomes : Question(o)
    \/ SummarizeBegin
    \/ SummarizeEnter
    \/ \E o \in Outcomes : SummarizeSection(o)
    \/ SummarizeReturn
    \/ \E o \in Outcomes : SummarizeFinal(o)

Spec == Init /\ [][Next]_vars

(***************************************************************************)
(* Calls of the pure functions chunk_text and find_relevant_context.       *)
(***************************************************************************)
InitPure ==
    /\ entry \in {"chunk_text", "find_relevant_context"}
    /\ full_text \in Texts
    /\ query \in (IF entry = "chunk_text" THEN { <<>> } ELSE PureQueries)
    /\ mode = "Research Paper"
    /\ max_tokens \in 1..MaxBudget
    /\ text_chunks = <<>>
    /\ Fresh

CallChunkText ==
    /\ entry = "chunk_text" /\ pc = "start"
    /\ ret' = [kind |-> "chunks", chunks |-> chunk_text(full_text, max_tokens)]
    /\ pc' = "returned"
    /\ UNCHANGED <<session, entry, full_text, query, mode, max_tokens, path, text_chunks,
                   summaries, context, is_summary, calls, err>>

CallFindRelevantContext ==
    /\ entry = "find_relevant_context" /\ pc = "start"
    /\ ret' = [kind |-> "context",
               text |-> find_relevant_context(full_text, query, max_tokens)]
    /\ pc' = "returned"
    /\ UNCHANGED <<session, entry, full_text, query, mode, max_tokens, path, text_chunks,
                   summaries, context, is_summary, calls, err>>

NextPure == CallChunkText \/ CallFindRelevantContext

SpecPure == InitPure /\ [][NextPure]_vars

(***************************************************************************)
(* Runs of the script in one browser session.  Every interaction with a    *)
(* widget makes the script run once from top to bottom; a button is true   *)
(* only in the run its press has started, and the file and the question    *)
(* field keep their values between runs.                                   *)
(***************************************************************************)
\* the three quick action buttons and the text each one stores
QuickActionOf ==
    [ summarize  |-> "Summarize the document, focusing on key contributions, methods, results, and limitations.",
      flashcards |-> "Generate 10 concise Q&A flashcards from this document.",
      quiz       |-> "Create a 5-question multiple-choice quiz based on the document." ]

QuickButtons == DOMAIN QuickActionOf

\* what extract_text_from_pdf can give for an uploaded file
PdfTexts == { <<>>, <<" ", "\n">>, <<"a", "b", "a", "B">> }

\* what the user can have typed into the question field
TypedQueries == { <<>>, <<" ">>, <<"w", "h", "y">>, <<" ", "w", "h", "y", " ">> }

\* how a call of process_large_document can end
ProcessOutcomes == { "answer", "error" }

\* if st.button(...): st.session_state.quick_action = ...
after_buttons(pressed) ==
    IF pressed \in QuickButtons THEN QuickActionOf[pressed] ELSE quick_action

\* if not uploaded_file / if not full_text.strip()
has_text(file) == file # <<>> /\ strip(file[1]) # <<>>

\* user_query = "" / quick_action / query.strip()
user_query(qa, typed) ==
    IF qa # None THEN qa
    ELSE IF strip(typed) # <<>> THEN Str(strip(typed))
    ELSE ""

\* if analyze_clicked or (st.session_state.quick_action and user_query)
dispatches(analyze_clicked, qa, uq) == analyze_clicked \/ (qa # None /\ uq # "")

\* a clearing that the exception of a failed call skips
after_processing_unless_raised(qa, o) == IF o = "error" THEN qa ELSE None

\* st.session_state.quick_action = None, after the try statement
after_processing(qa, o) == None

\* One run of the script: the quick action buttons, the tests on the
\* uploaded file, the choice of user_query, the Analyze button and the call
\* of process_large_document, which ends as o.
ScriptRun(pressed, file, typed, o) ==
    LET qa   == after_buttons(pressed)
        uq   == user_query(qa, typed)
        outcome ==
            IF file = <<>> THEN "no_file"
            ELSE IF ~has_text(file) THEN "no_text"
            ELSE IF ~dispatches(pressed = "analyze", qa, uq) THEN "idle"
            ELSE IF uq = "" THEN "warning"
            ELSE o
    IN  /\ entry = "script"
        /\ uploaded_file' = file
        /\ text_input' = typed
        /\ quick_action' = IF outcome \in ProcessOutcomes THEN after_processing(qa, o)
                           ELSE qa
        /\ run' = [pressed |-> pressed, has_text |-> has_text(file), pending |-> qa,
                   user_query |-> IF has_text(file) THEN uq ELSE "",
                   outcome |-> outcome,
                   waiting |-> IF has_text(file) THEN waiting ELSE <<>>]
        /\ waiting' = IF has_text(file) THEN <<>>
                      ELSE IF pressed \in QuickButtons THEN Append(waiting, qa)
                      ELSE waiting
        /\ UNCHANGED <<entry, full_text, query, mode, max_tokens, pc, path,
                       text_chunks, summaries, context, is_summary, calls, ret, err>>

\* the user uploads a file, replaces it or removes it
Upload(file, o) ==
    /\ file \in {<<>>} \cup { <<t>> : t \in PdfTexts }
    /\ ScriptRun("none", file, text_input, o)

\* the user presses one of the quick action buttons
PressQuick(b, o) ==
    /\ has_text(uploaded_file) \/ Len(waiting) < MaxWaiting
    /\ ScriptRun(b, uploaded_file, text_input, o)

\* the user presses the Analyze button
PressAnalyze(o) == ScriptRun("analyze", uploaded_file, text_input, o)

\* the user changes the question field
EditQuery(typed, o) ==
    /\ typed # text_input
    /\ ScriptRun("none", uploaded_file, typed, o)

\* the session after its first run: no file, nothing typed, no quick action
InitUI ==
    /\ entry = "script"
    /\ full_text = <<>>
    /\ query = <<>>
    /\ mode = "Research Paper"
    /\ max_tokens = TOKEN_BUDGET
    /\ text_chunks = <<>>
    /\ pc = "start"
    /\ path = "none"
    /\ summaries = <<>>
    /\ context = ""
    /\ is_summary = FALSE
    /\ calls = <<>>
    /\ ret = NoRet
    /\ err = <<>>
    /\ quick_action = None
    /\ uploaded_file = <<>>
    /\ text_input = <<>>
    /\ run = [NoRun EXCEPT !.outcome = "no_file"]
    /\ waiting = <<>>

NextUI ==
    \/ \E file \in {<<>>} \cup { <<t>> : t \in PdfTexts } : \E o \in ProcessOutcomes :
           Upload(file, o)
    \/ \E b \in QuickButtons : \E o \in ProcessOutcomes : PressQuick(b, o)
    \/ \E o \in ProcessOutcomes : PressAnalyze(o)
    \/ \E typed \in TypedQueries : \E o \in ProcessOutcomes : EditQuery(typed, o)

SpecUI == InitUI /\ [][NextUI]_vars

(***************************************************************************)
(* Properties of chunk_text (under SpecPure).                              *)
(***************************************************************************)
ChunkTextReturned == entry = "chunk_text" /\ pc = "returned"

MaxChars == max_tokens * CHARS_PER_TOKEN

\* the chunk is one word: it is not empty and holds no whitespace
OneWord(c) == c # <<>> /\ \A k \in 1..Len(c) : ~IsSpace(c[k])

\* C1: every chunk chunk_text returns is at most max_tokens*4 characters long
\* (so its token estimate is at most max_tokens), unless it is exactly one
\* word that is itself longer than max_tokens*4; a chunk of two or more words
\* never exceeds max_tokens*4.
C1_ChunkWithinBudget ==
    ChunkTextReturned =>
        \A k \in 1..Len(ret.chunks) :
            LET c == ret.chunks[k]
            IN  /\ (Len(c) > MaxChars => OneWord(c))
                /\ (Len(split(c)) >= 2 => Len(c) <= MaxChars)
                /\ (Len(c) <= MaxChars => estimate_tokens(c) <= max_tokens)

\* chunk_text has returned one chunk of several words that fills the budget
\* exactly to its last permitted character count and one oversized word
C1_Witness ==
    /\ ChunkTextReturned
    /\ \E k \in 1..Len(ret.chunks) :
           Len(split(ret.chunks[k])) >= 2 /\ Len(ret.chunks[k]) = MaxChars - 1
    /\ \E k \in 1..Len(ret.chunks) :
           OneWord(ret.chunks[k]) /\ Len(ret.chunks[k]) > MaxChars

\* C2: the chunks, joined with single spaces and split on whitespace, give
\* the words of the text in the same order; a text without words gives no
\* chunk; no chunk is empty.
C2_WordsPreserved ==
    ChunkTextReturned =>
        /\ split(join(<<" ">>, ret.chunks)) = split(full_text)
        /\ (split(full_text) = <<>> => ret.chunks = <<>>)
        /\ \A k \in 1..Len(ret.chunks) : ret.chunks[k] # <<>>

\* chunk_text has cut a text with irregular whitespace into several chunks
C2_Witness ==
    /\ ChunkTextReturned
    /\ Len(ret.chunks) >= 2
    /\ join(<<" ">>, ret.chunks) # full_text
    /\ Len(split(full_text)) > Len(ret.chunks)

(***************************************************************************)
(* Properties of find_relevant_context (under SpecPure).                   *)
(***************************************************************************)
ContextReturned == entry = "find_relevant_context" /\ pc = "returned"

\* the context the ranked paragraphs were assembled into
Assembled ==
    Assemble(scored_paragraphs(full_text, query), <<>>, MaxChars)

\* the branch "if not context.strip()" was taken
UsedFallback == strip(Assembled) = <<>>

FirstChunkOversizedWord ==
    LET chunks == chunk_text(full_text, max_tokens)
    IN  chunks # <<>> /\ OneWord(chunks[1]) /\ Len(chunks[1]) > MaxChars

\* C9: find_relevant_context returns at most max_tokens*4 characters (a
\* token estimate of at most max_tokens), except in the fallback when the
\* first chunk of the text is a single word longer than max_tokens*4.
C9_ContextWithinBudget ==
    ContextReturned =>
        /\ (Len(ret.text) > MaxChars => UsedFallback /\ FirstChunkOversizedWord)
        /\ (Len(ret.text) <= MaxChars => estimate_tokens(ret.text) <= max_tokens)

\* find_relevant_context has returned two ranked paragraphs, which are not
\* the whole of the text
C9_Witness ==
    /\ ContextReturned
    /\ ~UsedFallback
    /\ Len(paragraphs(ret.text)) = 2
    /\ ret.text # strip(full_text)

\* no paragraph of the text contains a query term longer than 3 characters
NoParagraphMatches ==
    \A i \in 1..Len(paragraphs(full_text)) :
        \A j \in 1..Len(query_words(query)) :
            ~Contains(lower(paragraphs(full_text)[i]), query_words(query)[j])

\* C10 as stated: when no paragraph contains a query term, the result is the
\* first chunk of chunk_text(text, max_tokens) or, without any chunk, the
\* text cut to max_tokens*4 characters.
C10_Original ==
    (ContextReturned /\ NoParagraphMatches) =>
        LET chunks == chunk_text(full_text, max_tokens)
        IN  ret.text = IF chunks # <<>> THEN chunks[1] ELSE Take(full_text, MaxChars)

\* C10 amended: when no paragraph contains a query term, the result is the
\* first chunk of chunk_text(text, max_tokens) or, without any chunk, the
\* text cut to max_tokens*4 characters and stripped of surrounding
\* whitespace, which is the empty string; the empty text gives the empty
\* string.
C10_FallbackFirstChunk ==
    (ContextReturned /\ NoParagraphMatches) =>
        LET chunks == chunk_text(full_text, max_tokens)
        IN  /\ chunks # <<>> => ret.text = chunks[1]
            /\ chunks = <<>> => /\ ret.text = strip(Take(full_text, MaxChars))
                                /\ ret.text = <<>>
            /\ full_text = <<>> => ret.text = <<>>

\* find_relevant_context has fallen back on the first of several chunks of a
\* text none of whose paragraphs contains the query's term
C10_Witness ==
    /\ ContextReturned
    /\ NoParagraphMatches
    /\ query_words(query) # <<>>
    /\ Len(chunk_text(full_text, max_tokens)) >= 2
    /\ ret.text = chunk_text(full_text, max_tokens)[1]

(***************************************************************************)
(* Properties of process_large_document and progressive_summarize (under   *)
(* Spec).                                                                  *)
(***************************************************************************)
ProcessCalled == entry = "process_large_document"

ProcessEnded == ProcessCalled /\ pc \in {"returned", "raised"}

ProcessReturned == ProcessCalled /\ pc = "returned"

LastCall == calls[Len(calls)]

\* the lower-cased query contains one of the four keywords
HasSummaryKeyword ==
    \E kw \in { <<"s","u","m","m","a","r","i","z","e">>,
                <<"s","u","m","m","a","r","y">>,
                <<"o","v","e","r","v","i","e","w">>,
                <<"f","l","a","s","h","c","a","r","d">> } :
        Contains(lower(query), kw)

\* len(full_text) // 4 is at most the budget
EstimateWithinBudget == Len(full_text) \div CHARS_PER_TOKEN <= TOKEN_BUDGET

\* C3: when process_large_document returns, was_reduced is false exactly
\* when len(full_text)//4 is at most the budget, and then the prompt was
\* built from full_text itself with is_summary false; above the budget
\* was_reduced is true, the summarization path was taken exactly when the
\* lower-cased query contains a keyword, and the question path otherwise.
C3_PathSelection ==
    ProcessReturned =>
        /\ ret.was_reduced = ~EstimateWithinBudget
        /\ ~ret.was_reduced =>
               /\ path = "direct"
               /\ context = Str(full_text)
               /\ is_summary = FALSE
               /\ LastCall.prompt =
                      build_academic_prompt(mode, Str(full_text), Str(query), FALSE)
        /\ ret.was_reduced =>
               /\ path = (IF HasSummaryKeyword THEN "summarization" ELSE "question")
               /\ is_summary = TRUE

\* process_large_document has returned on the direct path for a document
\* whose estimate equals the budget
C3_Witness ==
    /\ ProcessReturned
    /\ ret.was_reduced = FALSE
    /\ Len(full_text) \div CHARS_PER_TOKEN = TOKEN_BUDGET

\* min(n, 5)
AtMostFive(n) == IF n < MAX_SECTIONS THEN n ELSE MAX_SECTIONS

\* the requests sent so far are section requests for the first chunks of
\* chunks, in order, followed by at most one request for the final answer
SectionsThenFinal(chunks) ==
    LET m == AtMostFive(Len(chunks))
    IN  /\ Len(calls) <= m + 1
        /\ \A k \in 1..Len(calls) :
               IF k <= m
               THEN calls[k].prompt = section_prompt(chunks[k])
               ELSE calls[k].prompt =
                        build_academic_prompt(mode, context, Str(query), TRUE)
        /\ pc = "summarize" => Len(calls) <= m
        /\ pc \in {"returned", "raised"} => Len(calls) = m + 1

\* C4: on the summarization path the requests are, in this order, one
\* section request for each of the first min(n, 5) chunks of the document
\* and then one request for the final answer, whether or not section
\* requests failed; no chunk after the fifth is ever sent.
C4_SummarizationCalls ==
    (ProcessCalled /\ path = "summarization") =>
        SectionsThenFinal(chunk_text(full_text, TOKEN_BUDGET))

\* the summarization path has ended for a document of more than five
\* chunks, one of whose section requests failed
C4_Witness ==
    /\ ProcessEnded
    /\ path = "summarization"
    /\ Len(chunk_text(full_text, TOKEN_BUDGET)) > MAX_SECTIONS
    /\ Len(calls) = MAX_SECTIONS + 1
    /\ \E k \in 1..MAX_SECTIONS : ~calls[k].ok

\* C5: on the direct path and on the question path exactly one request is
\* sent, whether it succeeds or fails, and the function has then ended.
C5_SingleCall ==
    ProcessCalled =>
        /\ path \in {"direct", "question"} =>
               Len(calls) = 1 /\ pc \in {"returned", "raised"}
        /\ pc = "start" => calls = <<>>

\* the question path has ended in failure after its one request
C5_Witness ==
    /\ ProcessCalled
    /\ path = "question"
    /\ pc = "raised"
    /\ Len(calls) = 1
    /\ ~calls[1].ok

SummarizeCalled == entry = "progressive_summarize"

\* the digest whose failed sections read as the claim words them
DigestAsClaimed ==
    JoinStr("\n\n",
            [k \in 1..Len(text_chunks) |->
                IF calls[k].ok
                THEN "**Section " \o ToString(k) \o ":**\n" \o calls[k].text
                ELSE "Section " \o ToString(k) \o ": Error - " \o calls[k].text])

\* the digest whose failed sections carry the label in markdown emphasis
DigestAsWritten ==
    JoinStr("\n\n",
            [k \in 1..Len(text_chunks) |->
                IF calls[k].ok
                THEN "**Section " \o ToString(k) \o ":**\n" \o calls[k].text
                ELSE "**Section " \o ToString(k) \o ":** Error - " \o calls[k].text])

\* one request per chunk, in chunk order, and no exception
OneCallPerChunk ==
    /\ pc # "raised"
    /\ err = <<>>
    /\ Len(calls) <= Len(text_chunks)
    /\ \A k \in 1..Len(calls) : calls[k].prompt = section_prompt(text_chunks[k])
    /\ pc = "returned" => Len(calls) = Len(text_chunks)

\* C6 as stated: progressive_summarize never raises, sends one request per
\* chunk in chunk order, and returns the n sections in order, separated by
\* blank lines, a failed section reading "Section i: Error - <message>".
C6_Original ==
    SummarizeCalled =>
        /\ OneCallPerChunk
        /\ pc = "returned" => ret.digest = DigestAsClaimed

\* C6 amended: as stated, but a failed section reads
\* "**Section i:** Error - <message>".
C6_Digest ==
    SummarizeCalled =>
        /\ OneCallPerChunk
        /\ pc = "returned" => ret.digest = DigestAsWritten

\* progressive_summarize has returned for three or more chunks after the
\* second request failed and the first and third succeeded
C6_Witness ==
    /\ SummarizeCalled
    /\ pc = "returned"
    /\ Len(text_chunks) >= 3
    /\ calls[1].ok /\ ~calls[2].ok /\ calls[3].ok

\* C7: when the request for the final answer fails on any path,
\* process_large_document returns nothing and raises one error whose message
\* is the failure message of that request, unchanged; failed section
\* requests never make it raise.
C7_FailurePropagates ==
    ProcessCalled =>
        /\ pc = "raised" =>
               /\ ret = NoRet
               /\ ~LastCall.ok
               /\ err = <<LastCall.text>>
               /\ LastCall.prompt =
                      build_academic_prompt(mode, context, Str(query), is_summary)
        /\ pc = "returned" => err = <<>> /\ LastCall.ok /\ ret.answer = LastCall.text
        /\ pc \in {"start", "summarize"} => err = <<>> /\ ret = NoRet

\* the summarization path has raised the failure of its final request after
\* section requests that all succeeded
C7_Witness ==
    /\ ProcessCalled
    /\ path = "summarization"
    /\ pc = "raised"
    /\ Len(calls) >= 3
    /\ \A k \in 1..(Len(calls) - 1) : calls[k].ok

\* C8: when the estimate of the document exceeds the budget, the estimate of
\* the context put into the final prompt is at most the budget, on the
\* summarization path and on the question path; otherwise the context is the
\* document itself.
C8_ContextWithinBudget ==
    ProcessEnded =>
        /\ ~EstimateWithinBudget => Len(context) \div CHARS_PER_TOKEN <= TOKEN_BUDGET
        /\ EstimateWithinBudget => context = Str(full_text)

(***************************************************************************)
(* Ranking and assembly in find_relevant_context (under SpecPure).         *)
(***************************************************************************)
\* the pairs of ranked with the given score, in the order of ranked
WithScore(ranked, v) ==
    LET Has(x) == x.score = v IN SelectSeq(ranked, Has)

\* ranked holds the pairs of scored by score descending, pairs of equal
\* score in the order they have in scored
IsStableRanking(ranked, scored) ==
    /\ Len(ranked) = Len(scored)
    /\ \A i \in 1..Len(ranked) : \A j \in 1..Len(ranked) :
           i < j => ranked[i].score >= ranked[j].score
    /\ \A i \in 1..Len(scored) :
           WithScore(ranked, scored[i].score) = WithScore(scored, scored[i].score)

\* the first m paragraphs of ranked, a blank line between them
PrefixText(ranked, m) == join(<<"\n", "\n">>, [k \in 1..m |-> ranked[k].para])

\* len(context) after the first m paragraphs of ranked were appended
PrefixLength(ranked, m) == SumSeq([k \in 1..m |-> Len(ranked[k].para) + 2])

\* text is the first m paragraphs of ranked: each of them fitted when its
\* turn came and the next one, if any, did not
IsGreedyPrefix(text, ranked, m) ==
    /\ text = PrefixText(ranked, m)
    /\ \A k \in 1..m :
           PrefixLength(ranked, k - 1) + Len(ranked[k].para) + 2 < MaxChars
    /\ m < Len(ranked) =>
           ~(PrefixLength(ranked, m) + Len(ranked[m + 1].para) + 2 < MaxChars)

\* the paragraphs with a positive score, in document order
ScoredInDocumentOrder == Scored(paragraphs(full_text), query_words(query))

RankedPrefix(ranked, scored) ==
    /\ IsStableRanking(ranked, scored)
    /\ \A k \in 1..Len(ranked) : ranked[k].score > 0
    /\ \E m \in 1..Len(ranked) : IsGreedyPrefix(ret.text, ranked, m)

\* C11: without the fallback, the result is a non-empty prefix of the ranked
\* list, a blank line between its paragraphs; the ranked list holds the
\* paragraphs of positive score by score descending, equal scores in
\* document order; the prefix ends at the first paragraph that does not fit.
C11_RankedPrefix ==
    (ContextReturned /\ ~UsedFallback) =>
        RankedPrefix(scored_paragraphs(full_text, query), ScoredInDocumentOrder)

\* the third ranked paragraph would have fitted after the first, but the
\* second did not fit and ended the selection
SkippedSmaller(ranked) ==
    /\ Len(ranked) = 3
    /\ ret.text = ranked[1].para
    /\ Len(ranked[1].para) + 2 + Len(ranked[3].para) + 2 < MaxChars

\* find_relevant_context has returned only the first of three ranked
\* paragraphs although the third would still have fitted
C11_Witness ==
    /\ ContextReturned
    /\ ~UsedFallback
    /\ SkippedSmaller(scored_paragraphs(full_text, query))

\* what the fallback returns: the first chunk, or nothing for a text
\* without words
FallbackResult ==
    LET chunks == chunk_text(full_text, max_tokens)
    IN  IF chunks # <<>> THEN chunks[1] ELSE <<>>

\* C12 as stated: the fallback is taken exactly when no paragraph has a
\* positive score, and when some paragraph has one the result contains the
\* highest-scoring paragraph.
C12_Original ==
    ContextReturned =>
        /\ UsedFallback <=> ScoredInDocumentOrder = <<>>
        /\ ScoredInDocumentOrder # <<>> =>
               Contains(ret.text, scored_paragraphs(full_text, query)[1].para)

\* the first ranked paragraph passes the size test on an empty context
TopFits(ranked) == ranked # <<>> /\ Len(ranked[1].para) + 2 < MaxChars

FallbackUnlessTopFits(ranked) ==
    /\ ~TopFits(ranked) => ret.text = FallbackResult
    /\ TopFits(ranked) =>
           /\ StartsWith(ret.text, ranked[1].para)
           /\ Len(ret.text) > Len(ranked[1].para) =>
                  SubSeq(ret.text, Len(ranked[1].para) + 1, Len(ranked[1].para) + 2)
                      = <<"\n", "\n">>

\* C12 amended: the fallback is taken exactly when the assembled context is
\* empty, that is when no paragraph has a positive score or the first ranked
\* paragraph is too long to pass the size test (its length + 2 is not below
\* max_tokens*4); otherwise the result begins with the first ranked
\* paragraph.
C12_FallbackIffNothingAssembled ==
    ContextReturned =>
        /\ UsedFallback <=> ~TopFits(scored_paragraphs(full_text, query))
        /\ FallbackUnlessTopFits(scored_paragraphs(full_text, query))

\* find_relevant_context has fallen back on a first chunk that does not
\* contain the one paragraph with a positive score, which was too long
C12_Witness ==
    /\ ContextReturned
    /\ ScoredInDocumentOrder # <<>>
    /\ UsedFallback
    /\ ret.text = FallbackResult
    /\ ~Contains(ret.text, scored_paragraphs(full_text, query)[1].para)

\* len(context) + len(para) + 2 when the k-th ranked paragraph has its turn
SizeTestSum(ranked, k) == PrefixLength(ranked, k - 1) + Len(ranked[k].para) + 2

\* what is returned after m paragraphs of ranked were appended
ResultAfter(ranked, m) ==
    IF m > 0 THEN ret.text = PrefixText(ranked, m) ELSE ret.text = FallbackResult

\* C13 as stated: a paragraph is appended exactly when the sum does not
\* exceed max_tokens*4, so one whose sum equals max_tokens*4 is appended.
AppendedUpTo(ranked) ==
    \E m \in 0..Len(ranked) :
        /\ \A k \in 1..m : SizeTestSum(ranked, k) <= MaxChars
        /\ m < Len(ranked) => SizeTestSum(ranked, m + 1) > MaxChars
        /\ ResultAfter(ranked, m)

C13_Original ==
    ContextReturned => AppendedUpTo(scored_paragraphs(full_text, query))

AppendedBelow(ranked) ==
    \E m \in 0..Len(ranked) :
        /\ \A k \in 1..m : SizeTestSum(ranked, k) < MaxChars
        /\ m < Len(ranked) => SizeTestSum(ranked, m + 1) >= MaxChars
        /\ ResultAfter(ranked, m)

\* C13 amended: the next ranked paragraph is appended exactly when
\* len(context) + len(paragraph) + 2 is strictly below max_tokens*4; the
\* assembly stops at the first paragraph whose sum equals or exceeds it.
C13_AppendedStrictlyBelow ==
    ContextReturned => AppendedBelow(scored_paragraphs(full_text, query))

SumEqualsBudget(ranked) ==
    /\ Len(ranked) >= 2
    /\ ret.text = PrefixText(ranked, 1)
    /\ SizeTestSum(ranked, 2) = MaxChars

\* find_relevant_context has returned the first ranked paragraph alone
\* because the sum for the second equalled max_tokens*4 exactly
C13_Witness ==
    /\ ContextReturned
    /\ SumEqualsBudget(scored_paragraphs(full_text, query))

\* the positions of s at which sub occurs
Positions(s, sub) ==
    { i \in 1..(Len(s) - Len(sub) + 1) : SubSeq(s, i, i + Len(sub) - 1) = sub }

RECURSIVE DisjointFrom(_, _, _)
\* the occurrences met from position from on, each one starting at or after
\* the end of the one counted before it
DisjointFrom(ps, width, from) ==
    LET later == { i \in ps : i >= from }
    IN  IF later = {} THEN 0
        ELSE LET first == CHOOSE i \in later : \A j \in later : i <= j
             IN  1 + DisjointFrom(ps, width, first + width)

\* sum over the query's terms of the positions at which the term occurs
OverlappingScore(para, qwords) ==
    SumSeq([k \in 1..Len(qwords) |-> Cardinality(Positions(lower(para), qwords[k]))])

\* sum over the query's terms of the occurrences that do not overlap
DisjointScore(para, qwords) ==
    SumSeq([k \in 1..Len(qwords) |->
               DisjointFrom(Positions(lower(para), qwords[k]), Len(qwords[k]), 1)])

\* the terms of the query: its word tokens, lower-cased, longer than 3
IsTermsOf(qwords, q) ==
    LET words == findall_words(lower(q))
        Long(w) == Len(w) > MIN_TERM_LEN
    IN  qwords = SelectSeq(words, Long)

ZeroIffNoTerm(para, qwords) ==
    /\ score(para, qwords) \in Nat
    /\ score(para, qwords) = 0 <=>
           \A k \in 1..Len(qwords) : ~Contains(lower(para), qwords[k])

\* C14 as stated: the score of a paragraph is the sum over the query's terms
\* of the number of positions at which the term occurs, overlapping
\* occurrences counted separately; it is 0 exactly when no term occurs.
ScoresOverlapping(paras, qwords) ==
    /\ IsTermsOf(qwords, query)
    /\ \A i \in 1..Len(paras) :
           /\ score(paras[i], qwords) = OverlappingScore(paras[i], qwords)
           /\ ZeroIffNoTerm(paras[i], qwords)

C14_Original ==
    ContextReturned => ScoresOverlapping(paragraphs(full_text), query_words(query))

ScoresDisjoint(paras, qwords) ==
    /\ IsTermsOf(qwords, query)
    /\ \A i \in 1..Len(paras) :
           /\ score(paras[i], qwords) = DisjointScore(paras[i], qwords)
           /\ ZeroIffNoTerm(paras[i], qwords)

\* C14 amended: the score of a paragraph is the sum, over the query's
\* lower-cased word tokens longer than 3 characters, of the number of
\* non-overlapping occurrences of the term in the lower-cased paragraph,
\* found left to right; it is a natural number, 0 exactly when no term
\* occurs.
C14_ScoreCountsDisjoint ==
    ContextReturned => ScoresDisjoint(paragraphs(full_text), query_words(query))

OverlapInParagraph(paras, qwords) ==
    \E i \in 1..Len(paras) :
        /\ score(paras[i], qwords) >= 1
        /\ OverlappingScore(paras[i], qwords) > score(paras[i], qwords)

\* find_relevant_context has scored a paragraph in which occurrences of a
\* query term overlap
C14_Witness ==
    /\ ContextReturned
    /\ OverlapInParagraph(paragraphs(full_text), query_words(query))

\* the keys of mode_instructions
EnumeratedModes ==
    { "Homework / Problem", "Research Paper", "Lecture / Notes", "Flashcards" }

\* the pieces of the template of build_academic_prompt for the arguments of
\* the final call: literal pieces and the four substituted values
PartText ==
    [ header        |-> "You are StudyPDF. ",
      instruction   |-> instruction(mode),
      context_label |-> "\n\nContext: ",
      context       |-> context,
      note          |-> context_note(is_summary),
      query_label   |-> "\n\nQuestion: ",
      query         |-> Str(query),
      cue           |-> "\n\nAnswer:" ]

\* the order of the pieces in the f-string
TemplateOrder ==
    << "header", "instruction", "context_label", "context", "note",
       "query_label", "query", "cue" >>

\* the pieces concatenated in the given order
Rendered(order) == JoinStr("", [k \in 1..Len(order) |-> PartText[order[k]]])

\* the orders in which the note comes before the context, after or before
\* the label of the context
NoteFirstOrders ==
    { << "header", "instruction", "context_label", "note", "context",
         "query_label", "query", "cue" >>,
      << "header", "instruction", "note", "context_label", "context",
         "query_label", "query", "cue" >> }

\* C15 as stated: the prompt is the instruction, then the note iff
\* is_summary, then the context, then the query, then the cue; the note
\* precedes the context.
C15_Original ==
    ProcessEnded =>
        /\ \E order \in NoteFirstOrders : LastCall.prompt = Rendered(order)
        /\ PartText.note # "" <=> is_summary
        /\ mode \notin EnumeratedModes => PartText.instruction = ""

\* C15 amended: the prompt is the instruction selected by mode (empty for a
\* mode outside the four enumerated ones), then the context, then the note
\* iff is_summary, then the query, then the cue "Answer:"; the note, when
\* present, follows the context. The same arguments give the same prompt.
C15_NoteFollowsContext ==
    ProcessEnded =>
        /\ LastCall.prompt = Rendered(TemplateOrder)
        /\ PartText.note # "" <=> is_summary
        /\ mode \notin EnumeratedModes => PartText.instruction = ""

\* process_large_document has made its final call with a note, a non-empty
\* context and a mode outside the enumerated ones
C15_Witness ==
    /\ ProcessEnded
    /\ is_summary
    /\ context # ""
    /\ mode \notin EnumeratedModes
    /\ LastCall.prompt = "You are StudyPDF. \n\nContext: " \o context
           \o "\n[Note: Excerpt from larger document]\n\nQuestion: "
           \o Str(query) \o "\n\nAnswer:"

(***************************************************************************)
(* Properties of the quick action across the runs of the script (SpecUI).  *)
(***************************************************************************)
ScriptRan == entry = "script" /\ run.outcome # "none"

\* the last run called process_large_document
Processed == run.outcome \in ProcessOutcomes

\* the rules of one run: with a document with text the quick action is None
\* at the end, a pending one is the query, is processed without the Analyze
\* button and is cleared on success and on failure; without such a document
\* the pending quick action is kept and nothing is processed
RunRules ==
    /\ run.has_text => quick_action = None
    /\ (run.has_text /\ run.pending # None) =>
           /\ run.user_query = run.pending
           /\ Processed
    /\ ~run.has_text =>
           /\ quick_action = run.pending
           /\ ~Processed

====
